---- MODULE Spec2Model ----
(***************************************************************************)
(* Model of src/main.py: class Variable, a container that binds a value    *)
(* to a type given at construction and checks every assignment (<<) and    *)
(* transfer (>>) against it.                                               *)
(*                                                                         *)
(* A Python value is a record [t |-> name of its class, v |-> payload].    *)
(* The payload is an integer: the number itself for an int, 0/1 for a      *)
(* bool, an index into StrTable for a str, an index into TypeTable for a   *)
(* class object, the position in the heap for a Variable instance, 0 for   *)
(* None.                                                                   *)
(***************************************************************************)
EXTENDS Integers, Sequences, FiniteSets, TLC

\* Upper bound on the number of Variable objects constructed in one run.
MaxCells == 2

\* The classes of the model, by __name__; a class object is
\* [t |-> "type", v |-> its index here].
TypeTable == <<"object", "int", "bool", "str", "NoneType", "Variable", "type">>

\* The str payloads: a str value is [t |-> "str", v |-> its index here].
StrTable == <<"", "hello, world">>

\* Python's None.
None == [t |-> "NoneType", v |-> 0]

\* The direct base class of a class ("" for object, which has none).
Base(T) ==
    CASE T = "object" -> ""
      [] T = "bool" -> "int"
      [] OTHER -> "object"

\* The classes isinstance looks through: T and its bases, by name.
RECURSIVE Mro(_)
Mro(T) == IF T = "" THEN {} ELSE {T} \cup Mro(Base(T))

\* isinstance(value, T) with the subclass test the wrong way round.
isinstance_super(value, T) == value.t \in Mro(T)

\* isinstance(value, T) as an exact comparison of type(value) with T.
isinstance_exact(value, T) == value.t = T

\* isinstance(value, T): the class of value is T or a subclass of T.
isinstance(value, T) == T \in Mro(value.t)

\* The class object named by a "type" value, by its __name__.
ClassOf(arg) == TypeTable[arg.v]

Digit(d) == <<"0", "1", "2", "3", "4", "5", "6", "7", "8", "9">>[d + 1]

\* str(n) for a non-negative int n: its decimal digits.
RECURSIVE IntToStr(_)
IntToStr(n) == IF n < 10 THEN Digit(n) ELSE IntToStr(n \div 10) \o Digit(n % 10)

\* Python's str(value) for the values of the model.
PyStr(value) ==
    CASE value.t = "int" -> IntToStr(value.v)
      [] value.t = "bool" -> (IF value.v = 1 THEN "True" ELSE "False")
      [] value.t = "str" -> StrTable[value.v]
      [] value.t = "NoneType" -> "None"
      [] value.t = "type" -> "<class '" \o TypeTable[value.v] \o "'>"
      [] OTHER -> "<Variable>"

\* The ints, bools and strs the operations are tried with.
IntValues == {[t |-> "int", v |-> n] : n \in {42}}
BoolValues == {[t |-> "bool", v |-> n] : n \in {1}}
StrValues == {[t |-> "str", v |-> n] : n \in {2}}

\* Raw (non-Variable) operands of << and >>.
RawValues == IntValues \cup BoolValues \cup StrValues \cup {None}

\* Arguments Variable(...) is called with: the classes object, int, bool,
\* str and NoneType, and some non-classes.
ClassArgs == {[t |-> "type", v |-> k] : k \in 1..5}
InitArgs == ClassArgs \cup {[t |-> "int", v |-> 3], None}

\* The heap of Variable objects in order of construction: cells[i] is
\* [type |-> self.type, data |-> self.data] of the i-th one.
VARIABLE cells

\* The latest call and how it ended.
VARIABLE last

vars == <<cells, last>>

\* A reference to the Variable object at heap position i.
Ref(i) == [t |-> "Variable", v |-> i]

\* The operands of <<: raw values and the Variable objects that exist.
Operands == RawValues \cup {Ref(i) : i \in DOMAIN cells}

\* The right operands of >>: the Variable objects that exist and, for the
\* operands that are not Variables (one branch in the code), the ints.
RshiftOperands == IntValues \cup {Ref(i) : i \in DOMAIN cells}

\* The record of a call: which method, on which object, with which
\* argument, how it ended ("ok" or the exception raised) and what it returned.
Call(op, self, arg, outcome, result) ==
    [op |-> op, self |-> self, arg |-> arg, outcome |-> outcome, result |-> result]

Init ==
    /\ cells = << >>
    /\ last = Call("none", 0, None, "ok", "")

\* Variable(data_type), taking object as the type when data_type is not a
\* class instead of raising.
init_default(data_type) ==
    /\ Len(cells) < MaxCells
    /\ cells' = Append(cells,
                  [type |-> IF isinstance(data_type, "type")
                            THEN ClassOf(data_type) ELSE "object",
                   data |-> None])
    /\ last' = Call("__init__", Len(cells) + 1, data_type, "ok", "")

\* Variable(data_type)
__init__(data_type) ==
    /\ Len(cells) < MaxCells
    /\ IF ~isinstance(data_type, "type")
       THEN /\ last' = Call("__init__", 0, data_type, "TypeError", "")
            /\ UNCHANGED cells
       ELSE /\ cells' = Append(cells, [type |-> ClassOf(data_type), data |-> None])
            /\ last' = Call("__init__", Len(cells) + 1, data_type, "ok", "")

\* self >> other, with the uninitialized check missing.
rshift_nocheck(self, other) ==
    IF ~isinstance(other, "Variable") \/ cells[other.v].type # cells[self].type
    THEN /\ last' = Call("__rshift__", self, other, "TypeError", "")
         /\ UNCHANGED cells
    ELSE /\ cells' = [cells EXCEPT ![other.v].data = cells[self].data]
         /\ last' = Call("__rshift__", self, other, "ok", "")

\* self >> other as a move: the source is emptied after the copy.
rshift_move(self, other) ==
    IF ~isinstance(other, "Variable") \/ cells[other.v].type # cells[self].type
    THEN /\ last' = Call("__rshift__", self, other, "TypeError", "")
         /\ UNCHANGED cells
    ELSE IF cells[self].data = None
    THEN /\ last' = Call("__rshift__", self, other, "ValueError", "")
         /\ UNCHANGED cells
    ELSE /\ cells' = [[cells EXCEPT ![other.v].data = cells[self].data]
                         EXCEPT ![self].data = IF self = other.v THEN @ ELSE None]
         /\ last' = Call("__rshift__", self, other, "ok", "")

\* self >> other, with the uninitialized check made before the checks of
\* the right operand.
rshift_unsetfirst(self, other) ==
    IF cells[self].data = None
    THEN /\ last' = Call("__rshift__", self, other, "ValueError", "")
         /\ UNCHANGED cells
    ELSE IF ~isinstance(other, "Variable")
    THEN /\ last' = Call("__rshift__", self, other, "TypeError", "")
         /\ UNCHANGED cells
    ELSE IF cells[other.v].type # cells[self].type
    THEN /\ last' = Call("__rshift__", self, other, "TypeError", "")
         /\ UNCHANGED cells
    ELSE /\ cells' = [cells EXCEPT ![other.v].data = cells[self].data]
         /\ last' = Call("__rshift__", self, other, "ok", "")

\* self >> other copying the wrong way: self takes the data of other.
rshift_backward(self, other) ==
    IF ~isinstance(other, "Variable")
    THEN /\ last' = Call("__rshift__", self, other, "TypeError", "")
         /\ UNCHANGED cells
    ELSE IF cells[other.v].type # cells[self].type
    THEN /\ last' = Call("__rshift__", self, other, "TypeError", "")
         /\ UNCHANGED cells
    ELSE IF cells[self].data = None
    THEN /\ last' = Call("__rshift__", self, other, "ValueError", "")
         /\ UNCHANGED cells
    ELSE /\ cells' = [cells EXCEPT ![self].data = cells[other.v].data]
         /\ last' = Call("__rshift__", self, other, "ok", "")

\* self >> other
__rshift__(self, other) ==
    IF ~isinstance(other, "Variable")
    THEN /\ last' = Call("__rshift__", self, other, "TypeError", "")
         /\ UNCHANGED cells
    ELSE IF cells[other.v].type # cells[self].type
    THEN /\ last' = Call("__rshift__", self, other, "TypeError", "")
         /\ UNCHANGED cells
    ELSE IF cells[self].data = None
    THEN /\ last' = Call("__rshift__", self, other, "ValueError", "")
         /\ UNCHANGED cells
    ELSE /\ cells' = [cells EXCEPT ![other.v].data = cells[self].data]
         /\ last' = Call("__rshift__", self, other, "ok", "")

\* self << value, storing the value before checking it.
lshift_partial(self, value) ==
    LET expected_type == cells[self].type IN
    IF isinstance(value, "Variable")
    THEN /\ cells' = [cells EXCEPT ![self].data = cells[value.v].data]
         /\ last' = Call("__lshift__", self, value,
                IF cells[value.v].type # expected_type THEN "TypeError" ELSE "ok", "")
    ELSE /\ cells' = [cells EXCEPT ![self].data = value]
         /\ last' = Call("__lshift__", self, value,
                IF ~isinstance(value, expected_type) THEN "TypeError" ELSE "ok", "")

\* self << value, with the isinstance check of a raw value missing.
lshift_nocheck(self, value) ==
    LET expected_type == cells[self].type IN
    IF isinstance(value, "Variable")
    THEN IF cells[value.v].type # expected_type
         THEN /\ last' = Call("__lshift__", self, value, "TypeError", "")
              /\ UNCHANGED cells
         ELSE /\ cells' = [cells EXCEPT ![self].data = cells[value.v].data]
              /\ last' = Call("__lshift__", self, value, "ok", "")
    ELSE /\ cells' = [cells EXCEPT ![self].data = value]
         /\ last' = Call("__lshift__", self, value, "ok", "")

\* self << value, with the comparison of the two Variables' types missing.
lshift_nocelltype(self, value) ==
    LET expected_type == cells[self].type IN
    IF isinstance(value, "Variable")
    THEN /\ cells' = [cells EXCEPT ![self].data = cells[value.v].data]
         /\ last' = Call("__lshift__", self, value, "ok", "")
    ELSE IF ~isinstance(value, expected_type)
    THEN /\ last' = Call("__lshift__", self, value, "TypeError", "")
         /\ UNCHANGED cells
    ELSE /\ cells' = [cells EXCEPT ![self].data = value]
         /\ last' = Call("__lshift__", self, value, "ok", "")

\* self << value as a move: a source Variable is emptied after the copy.
lshift_move(self, value) ==
    LET expected_type == cells[self].type IN
    IF isinstance(value, "Variable")
    THEN IF cells[value.v].type # expected_type
         THEN /\ last' = Call("__lshift__", self, value, "TypeError", "")
              /\ UNCHANGED cells
         ELSE /\ cells' = [[cells EXCEPT ![self].data = cells[value.v].data]
                              EXCEPT ![value.v].data = IF self = value.v THEN @ ELSE None]
              /\ last' = Call("__lshift__", self, value, "ok", "")
    ELSE IF ~isinstance(value, expected_type)
    THEN /\ last' = Call("__lshift__", self, value, "TypeError", "")
         /\ UNCHANGED cells
    ELSE /\ cells' = [cells EXCEPT ![self].data = value]
         /\ last' = Call("__lshift__", self, value, "ok", "")

\* self << value, refusing a source Variable whose data is None, as >> does.
lshift_guarded(self, value) ==
    LET expected_type == cells[self].type IN
    IF isinstance(value, "Variable")
    THEN IF cells[value.v].type # expected_type
         THEN /\ last' = Call("__lshift__", self, value, "TypeError", "")
              /\ UNCHANGED cells
         ELSE IF cells[value.v].data = None
         THEN /\ last' = Call("__lshift__", self, value, "ValueError", "")
              /\ UNCHANGED cells
         ELSE /\ cells' = [cells EXCEPT ![self].data = cells[value.v].data]
              /\ last' = Call("__lshift__", self, value, "ok", "")
    ELSE IF ~isinstance(value, expected_type)
    THEN /\ last' = Call("__lshift__", self, value, "TypeError", "")
         /\ UNCHANGED cells
    ELSE /\ cells' = [cells EXCEPT ![self].data = value]
         /\ last' = Call("__lshift__", self, value, "ok", "")

\* self << value, rebinding self.type to the class of the stored raw value.
lshift_retype(self, value) ==
    LET expected_type == cells[self].type IN
    IF isinstance(value, "Variable")
    THEN IF cells[value.v].type # expected_type
         THEN /\ last' = Call("__lshift__", self, value, "TypeError", "")
              /\ UNCHANGED cells
         ELSE /\ cells' = [cells EXCEPT ![self].data = cells[value.v].data]
              /\ last' = Call("__lshift__", self, value, "ok", "")
    ELSE IF ~isinstance(value, expected_type)
    THEN /\ last' = Call("__lshift__", self, value, "TypeError", "")
         /\ UNCHANGED cells
    ELSE /\ cells' = [cells EXCEPT ![self] = [type |-> value.t, data |-> value]]
         /\ last' = Call("__lshift__", self, value, "ok", "")

\* self << value as a single assignment: a raw value is refused once the
\* data is set.
lshift_once(self, value) ==
    LET expected_type == cells[self].type IN
    IF isinstance(value, "Variable")
    THEN IF cells[value.v].type # expected_type
         THEN /\ last' = Call("__lshift__", self, value, "TypeError", "")
              /\ UNCHANGED cells
         ELSE /\ cells' = [cells EXCEPT ![self].data = cells[value.v].data]
              /\ last' = Call("__lshift__", self, value, "ok", "")
    ELSE IF ~isinstance(value, expected_type)
    THEN /\ last' = Call("__lshift__", self, value, "TypeError", "")
         /\ UNCHANGED cells
    ELSE IF cells[self].data # None
    THEN /\ last' = Call("__lshift__", self, value, "ValueError", "")
         /\ UNCHANGED cells
    ELSE /\ cells' = [cells EXCEPT ![self].data = value]
         /\ last' = Call("__lshift__", self, value, "ok", "")

\* self << value, testing the value against self.type before asking whether
\* it is a Variable.
lshift_rawfirst(self, value) ==
    LET expected_type == cells[self].type IN
    IF isinstance(value, expected_type)
    THEN /\ cells' = [cells EXCEPT ![self].data = value]
         /\ last' = Call("__lshift__", self, value, "ok", "")
    ELSE IF ~isinstance(value, "Variable")
    THEN /\ last' = Call("__lshift__", self, value, "TypeError", "")
         /\ UNCHANGED cells
    ELSE IF cells[value.v].type # expected_type
    THEN /\ last' = Call("__lshift__", self, value, "TypeError", "")
         /\ UNCHANGED cells
    ELSE /\ cells' = [cells EXCEPT ![self].data = cells[value.v].data]
         /\ last' = Call("__lshift__", self, value, "ok", "")

\* self << value
__lshift__(self, value) ==
    LET expected_type == cells[self].type IN
    IF isinstance(value, "Variable")
    THEN IF cells[value.v].type # expected_type
         THEN /\ last' = Call("__lshift__", self, value, "TypeError", "")
              /\ UNCHANGED cells
         ELSE /\ cells' = [cells EXCEPT ![self].data = cells[value.v].data]
              /\ last' = Call("__lshift__", self, value, "ok", "")
    ELSE IF ~isinstance(value, expected_type)
    THEN /\ last' = Call("__lshift__", self, value, "TypeError", "")
         /\ UNCHANGED cells
    ELSE /\ cells' = [cells EXCEPT ![self].data = value]
         /\ last' = Call("__lshift__", self, value, "ok", "")

\* The text __str__ returns for a Variable whose data is None.
Placeholder(T) == "Uninitialized variable of type " \o T

\* str(self)
__str__(self) ==
    /\ last' = Call("__str__", self, None, "ok",
                    IF cells[self].data # None
                    THEN PyStr(cells[self].data)
                    ELSE Placeholder(cells[self].type))
    /\ UNCHANGED cells

Next ==
    \/ \E data_type \in InitArgs : __init__(data_type)
    \/ \E self \in DOMAIN cells : \E other \in RshiftOperands : __rshift__(self, other)
    \/ \E self \in DOMAIN cells : \E value \in Operands : __lshift__(self, value)
    \/ \E self \in DOMAIN cells : __str__(self)

Spec == Init /\ [][Next]_vars

\* The shape of the state.
TypeOK ==
    /\ \A i \in DOMAIN cells :
          /\ cells[i].type \in {TypeTable[k] : k \in DOMAIN TypeTable}
          /\ cells[i].data \in RawValues
    /\ last.op \in {"none", "__init__", "__rshift__", "__lshift__", "__str__"}
    /\ last.outcome \in {"ok", "TypeError", "ValueError"}

(***************************************************************************)
(* Vocabulary of the properties.  `last` is the call that led to the       *)
(* current state, so in a step `last'` is the call being made, `cells` the *)
(* heap before it and `cells'` the heap after it.                          *)
(***************************************************************************)

\* The Variable at position i holds a value (its data is not None).
IsSet(i) == cells[i].data # None

\* The call being made is self << value (resp. self >> other).
IsLshift(c) == c.op = "__lshift__"
IsRshift(c) == c.op = "__rshift__"

\* The argument of a call is a Variable object (resp. a raw value).
IsCellArg(c) == c.arg.t = "Variable"
IsRawArg(c) == c.arg.t # "Variable"

\* C1 (as stated): every Variable whose data is set holds a value whose
\* runtime class is exactly the Variable's type.
C1_ExactTypeInvariant ==
    \A i \in DOMAIN cells : IsSet(i) => cells[i].data.t = cells[i].type

\* C1 (amended): every Variable whose data is set holds a value that is an
\* instance of the Variable's type: its runtime class is that type or one
\* of its subclasses.
C1_InstanceInvariant ==
    \A i \in DOMAIN cells : IsSet(i) => cells[i].type \in Mro(cells[i].data.t)

\* A Variable(int) holding True: set, of a subclass of its type.
C1_Witness ==
    \E i \in DOMAIN cells :
        /\ cells[i].type = "int"
        /\ cells[i].data = [t |-> "bool", v |-> 1]
        /\ last.outcome = "ok"

\* C2: no call takes a Variable whose data is set back to unset.
C2_NeverUnset ==
    [][\A i \in DOMAIN cells : cells[i].data # None => cells'[i].data # None]_vars

\* C3: a << or >> that raises leaves every Variable, type and data, as it was.
C3_NoPartialMutation ==
    [][((IsLshift(last') \/ IsRshift(last')) /\ last'.outcome # "ok")
          => cells' = cells]_vars

\* A failed << on a Variable that holds a value, and a failed >> from one.
C3_Witness ==
    /\ last.outcome # "ok"
    /\ IsLshift(last) \/ IsRshift(last)
    /\ IsSet(last.self)
    /\ IsCellArg(last) => IsSet(last.arg.v)

\* C4 (as stated): >> on a Variable whose data is unset raises ValueError,
\* whatever the right operand.
C4_AlwaysValueError ==
    (IsRshift(last) /\ ~IsSet(last.self)) => last.outcome = "ValueError"

\* C4 (amended): >> on a Variable whose data is unset always raises and
\* changes nothing: ValueError when the right operand is a Variable of the
\* same type, TypeError when it is not a Variable or is one of another type.
C4_UnsetTransferFails ==
    [][(IsRshift(last') /\ cells[last'.self].data = None)
          => /\ cells' = cells
             /\ last'.outcome =
                   IF IsCellArg(last') /\ cells[last'.arg.v].type = cells[last'.self].type
                   THEN "ValueError" ELSE "TypeError"]_vars

\* >> from an unset Variable into a set Variable of the same type.
C4_Witness ==
    /\ IsRshift(last)
    /\ ~IsSet(last.self)
    /\ IsCellArg(last)
    /\ last.arg.v # last.self
    /\ cells[last.arg.v].type = cells[last.self].type
    /\ IsSet(last.arg.v)
    /\ last.outcome = "ValueError"

C6_WrongTypeRaises ==
    (/\ IsLshift(last)
     /\ IsRawArg(last)
     /\ last.arg.t # cells[last.self].type)
       => last.outcome = "TypeError"

\* C6 (amended): << with a raw value that is not an instance of the
\* Variable's type (its runtime class is neither that type nor a subclass of
\* it) raises TypeError and leaves the data as it was, set or unset.
C6_NonInstanceRaises ==
    [][(/\ IsLshift(last')
        /\ IsRawArg(last')
        /\ cells[last'.self].type \notin Mro(last'.arg.t))
          => /\ last'.outcome = "TypeError"
             /\ cells' = cells]_vars

\* The str Variable holding "hello, world" after << 42 was refused.
C6_Witness ==
    /\ IsLshift(last)
    /\ last.arg = [t |-> "int", v |-> 42]
    /\ last.outcome = "TypeError"
    /\ cells[last.self] = [type |-> "str", data |-> [t |-> "str", v |-> 2]]

\* C7 (as stated): << with a raw value succeeds exactly when the value's
\* runtime class is the Variable's type; a value of a proper subclass is
\* refused.
C7_ExactMatchOnly ==
    (IsLshift(last) /\ IsRawArg(last))
       => (last.outcome = "ok" <=> last.arg.t = cells[last.self].type)

\* C7 (amended): << with a raw value succeeds exactly when the value is an
\* instance of the Variable's type, a value of a proper subclass included;
\* otherwise it raises TypeError.
C7_InstanceMatch ==
    (IsLshift(last) /\ IsRawArg(last))
       => /\ last.outcome = "ok" <=> cells[last.self].type \in Mro(last.arg.t)
          /\ last.outcome \in {"ok", "TypeError"}

\* True accepted by a Variable(int): a proper subclass of the declared type.
C7_Witness ==
    /\ IsLshift(last)
    /\ last.arg = [t |-> "bool", v |-> 1]
    /\ cells[last.self].type = "int"
    /\ last.outcome = "ok"
    /\ cells[last.self].data = last.arg

\* C8: << whose right operand is a Variable of another type raises TypeError
\* and changes neither Variable, whether their data is set or not.
C8_CellTypeMismatch ==
    [][(/\ IsLshift(last')
        /\ IsCellArg(last')
        /\ cells[last'.arg.v].type # cells[last'.self].type)
          => /\ last'.outcome = "TypeError"
             /\ cells'[last'.self] = cells[last'.self]
             /\ cells'[last'.arg.v] = cells[last'.arg.v]]_vars

\* y << z refused with y and z of different types and both set.
C8_Witness ==
    /\ IsLshift(last)
    /\ IsCellArg(last)
    /\ last.outcome = "TypeError"
    /\ cells[last.arg.v].type # cells[last.self].type
    /\ IsSet(last.self)
    /\ IsSet(last.arg.v)

\* C9: << writes its left operand only and >> its right operand only: a
\* source Variable is never changed, and a Variable that copied from another
\* keeps its data when the other is written later.
C9_CopyNotAlias ==
    [][/\ IsLshift(last') =>
            \A i \in DOMAIN cells : i # last'.self => cells'[i] = cells[i]
       /\ (IsLshift(last') /\ IsCellArg(last')) =>
            cells'[last'.arg.v] = cells[last'.arg.v]
       /\ (IsRshift(last') /\ IsCellArg(last')) =>
            /\ \A i \in DOMAIN cells : i # last'.arg.v => cells'[i] = cells[i]
            /\ cells'[last'.self] = cells[last'.self]]_vars

\* x was given a new raw value and y, of the same type, still holds another.
C9_Witness ==
    /\ IsLshift(last)
    /\ IsRawArg(last)
    /\ last.outcome = "ok"
    /\ \E y \in DOMAIN cells :
          /\ y # last.self
          /\ cells[y].type = cells[last.self].type
          /\ IsSet(y)
          /\ IsSet(last.self)
          /\ cells[y].data # cells[last.self].data

\* C10: str(x) right after a successful x << v, with v a raw value whose
\* runtime class is x's type, returns str(v), never the uninitialized
\* placeholder.
C10_DisplayAfterAssign ==
    [][(/\ IsLshift(last)
        /\ IsRawArg(last)
        /\ last.outcome = "ok"
        /\ last.arg.t = cells[last.self].type
        /\ last'.op = "__str__"
        /\ last'.self = last.self)
          => last'.result = PyStr(last.arg)]_vars

\* C11: y << x with x a Variable of y's type succeeds and leaves y's data
\* equal to x's data, also when x's data is unset (None): << has no
\* uninitialized check, unlike >>.
C11_SameTypeAssignCopies ==
    [][(/\ IsLshift(last')
        /\ IsCellArg(last')
        /\ cells[last'.arg.v].type = cells[last'.self].type)
          => /\ last'.outcome = "ok"
             /\ cells'[last'.self].data = cells[last'.arg.v].data]_vars

\* y << x succeeded with x unset and of y's type: y is unset too.
C11_Witness ==
    /\ IsLshift(last)
    /\ IsCellArg(last)
    /\ last.arg.v # last.self
    /\ last.outcome = "ok"
    /\ cells[last.arg.v].type = cells[last.self].type
    /\ ~IsSet(last.arg.v)
    /\ ~IsSet(last.self)

\* C12: no call changes the type of a Variable that exists: whatever the
\* method, the operands and the outcome, every Variable keeps the type it
\* got from __init__.
C12_TypeImmutable ==
    [][/\ \A i \in DOMAIN cells :
            /\ i \in DOMAIN cells'
            /\ cells'[i].type = cells[i].type
       /\ (last'.op = "__init__" /\ last'.outcome = "ok") =>
            cells'[last'.self].type = TypeTable[last'.arg.v]]_vars

\* A Variable(int) that took a value of another class (True) through << and
\* one whose << was refused: both still of their constructed type.
C12_Witness ==
    /\ IsLshift(last)
    /\ cells[last.self].type = "int"
    /\ \/ last.outcome = "ok" /\ cells[last.self].data.t = "bool"
       \/ last.outcome = "TypeError" /\ last.arg.t = "str"

\* C13: x << v made again right after x << v, with the same x and the same
\* v (a raw value or a Variable), ends as the first did (ok or TypeError) and
\* leaves every Variable as the first left it.
C13_AssignIdempotent ==
    [][(/\ IsLshift(last)
        /\ IsLshift(last')
        /\ last'.self = last.self
        /\ last'.arg = last.arg)
          => /\ last'.outcome = last.outcome
             /\ cells' = cells]_vars

\* z holds "hello, world" after z << "hello, world", made once or repeatedly.
C13_Witness ==
    /\ IsLshift(last)
    /\ last.arg = [t |-> "str", v |-> 2]
    /\ last.outcome = "ok"
    /\ cells[last.self] = [type |-> "str", data |-> last.arg]

\* C14: Variable(arg) raises TypeError and constructs nothing when arg is
\* not a class; otherwise it constructs one new Variable whose type is arg
\* and whose data is unset, and leaves the existing ones alone.
C14_Construct ==
    [][last'.op = "__init__"
          => IF last'.arg.t # "type"
             THEN /\ last'.outcome = "TypeError"
                  /\ cells' = cells
             ELSE /\ last'.outcome = "ok"
                  /\ cells' = Append(cells,
                        [type |-> TypeTable[last'.arg.v], data |-> None])]_vars

\* Variable(3) refused after one Variable was constructed: still one.
C14_Witness ==
    /\ last.op = "__init__"
    /\ last.arg = [t |-> "int", v |-> 3]
    /\ last.outcome = "TypeError"
    /\ Len(cells) = 1

\* C15: >> checks its right operand before its own data: it raises
\* TypeError whenever the right operand is not a Variable or is a Variable of
\* another type, the source being set or not, and raises ValueError only
\* when the right operand is a Variable of the same type.
C15_TargetChecksFirst ==
    [][IsRshift(last')
          => /\ (\/ IsRawArg(last')
                 \/ cells[last'.arg.v].type # cells[last'.self].type)
                   => last'.outcome = "TypeError"
             /\ last'.outcome = "ValueError"
                   => /\ IsCellArg(last')
                      /\ cells[last'.arg.v].type = cells[last'.self].type
                      /\ cells[last'.self].data = None]_vars

\* >> from an unset Variable into a Variable of another type: TypeError.
C15_Witness ==
    /\ IsRshift(last)
    /\ IsCellArg(last)
    /\ ~IsSet(last.self)
    /\ cells[last.arg.v].type # cells[last.self].type
    /\ last.outcome = "TypeError"

\* The heaps a copy between a and b can lead to: the present one, or the
\* present one with the data of a or b replaced by the data of a or b.
C16_Heaps(a, b) ==
    {cells} \cup {[cells EXCEPT ![i].data = cells[j].data] : i \in {a, b}, j \in {a, b}}

\* C16: for all Variables a and b with a's data set, a >> b and b << a end
\* the same way (both ok, or both TypeError) and lead to the same heap.
C16_TransferAgreesWithAssign ==
    \A a \in DOMAIN cells : \A b \in DOMAIN cells :
        cells[a].data # None =>
            \E c \in C16_Heaps(a, b) : \E o \in {"ok", "TypeError"} :
                /\ ENABLED (__rshift__(a, Ref(b)) /\ cells' = c /\ last'.outcome = o)
                /\ ENABLED (__lshift__(b, Ref(a)) /\ cells' = c /\ last'.outcome = o)

\* b << a was made with a set, a and b distinct and of the same type; a >> b
\* from the state before would have given the same heap.
C16_Witness ==
    /\ IsLshift(last)
    /\ IsCellArg(last)
    /\ last.arg.v # last.self
    /\ last.outcome = "ok"
    /\ IsSet(last.arg.v)
    /\ cells[last.self].data = cells[last.arg.v].data
    /\ Len(cells) = 2

\* C17: a Variable given to << is always taken as a source, never stored:
\* whatever the type of the receiver, object included, the call either
\* copies the data of the source or raises TypeError and changes nothing, and
\* no Variable's data is ever a Variable.
C17_CellNeverStored ==
    [][/\ \A i \in DOMAIN cells' : cells'[i].data.t # "Variable"
       /\ (IsLshift(last') /\ IsCellArg(last'))
            => \/ /\ last'.outcome = "ok"
                  /\ cells'[last'.self].data = cells[last'.arg.v].data
               \/ /\ last'.outcome = "TypeError"
                  /\ cells' = cells]_vars

\* A Variable(object), of which every Variable is an instance, was given a
\* set Variable of another type: refused, nothing stored.
C17_Witness ==
    /\ IsLshift(last)
    /\ IsCellArg(last)
    /\ cells[last.self].type = "object"
    /\ cells[last.arg.v].type # "object"
    /\ IsSet(last.arg.v)
    /\ last.outcome = "TypeError"
    /\ ~IsSet(last.self)

====
